---- MODULE Spec2Model ----
(***************************************************************************)
(* Model of spotdl/utils/metadata.py: embed_metadata, embed_cover and      *)
(* get_file_metadata over the four container families (mp3, m4a, flac,     *)
(* ogg/opus).  Python values are tagged records [t, v]; a str is a         *)
(* sequence of one-character strings so that indexing, slicing, split,     *)
(* zfill, str() and int() are computed and not assumed.                    *)
(***************************************************************************)
EXTENDS Integers, Sequences, FiniteSets, TLC

VARIABLES song, encoding, file, audio_file, pc, ops, err,
          song_meta, rd, cover

vars == <<song, encoding, file, audio_file, pc, ops, err, song_meta, rd, cover>>

(***************************************************************************)
(* Bounds of the explored inputs.                                          *)
(***************************************************************************)
MaxArtists == 2
MaxGenres == 2
MaxNumber == 2

(***************************************************************************)
(* Python values.                                                          *)
(***************************************************************************)
None == [t |-> "none", v |-> 0]
Str(s) == [t |-> "str", v |-> s]
PyInt(n) == [t |-> "int", v |-> n]
Bool(b) == [t |-> "bool", v |-> b]
List(l) == [t |-> "list", v |-> l]
Tuple(l) == [t |-> "tuple", v |-> l]
Bytes(s) == [t |-> "bytes", v |-> s]

\* Python truthiness: None, "", [], (), 0 and False are falsy.
Truthy(x) ==
  CASE x.t = "none" -> FALSE
    [] x.t = "bool" -> x.v
    [] x.t = "int" -> x.v # 0
    [] OTHER -> Len(x.v) > 0

Put(m, k, x) == [y \in DOMAIN m \cup {k} |-> IF y = k THEN x ELSE m[y]]

Get(m, k) == IF k \in DOMAIN m THEN m[k] ELSE None

EmptyMap == [y \in {} |-> None]

(***************************************************************************)
(* str(), int(), zfill, split and slicing on character sequences.          *)
(***************************************************************************)
Digits == <<"0", "1", "2", "3", "4", "5", "6", "7", "8", "9">>

IsDigit(c) == \E d \in 1..10 : Digits[d] = c

DigitVal(c) == (CHOOSE d \in 1..10 : Digits[d] = c) - 1

RECURSIVE str(_)
str(n) == IF n < 10 THEN <<Digits[n + 1]>>
          ELSE str(n \div 10) \o <<Digits[(n % 10) + 1]>>

\* int(s) raises ValueError unless s is a non-empty run of digits.
IntOk(s) == Len(s) > 0 /\ \A i \in 1..Len(s) : IsDigit(s[i])

RECURSIVE int(_)
int(s) == IF Len(s) = 0 THEN 0
          ELSE 10 * int(SubSeq(s, 1, Len(s) - 1)) + DigitVal(s[Len(s)])

RECURSIVE zfill(_, _)
zfill(s, width) == IF Len(s) >= width THEN s ELSE zfill(<<"0">> \o s, width)

\* s[:n]
Prefix(s, n) == SubSeq(s, 1, IF Len(s) < n THEN Len(s) ELSE n)

\* s.split(sep) for a one-character separator: the list of parts.
RECURSIVE split(_, _)
split(s, sep) ==
  IF \A i \in 1..Len(s) : s[i] # sep THEN <<s>>
  ELSE LET i == CHOOSE j \in 1..Len(s) :
                  s[j] = sep /\ \A k \in 1..(j - 1) : s[k] # sep
       IN <<SubSeq(s, 1, i - 1)>> \o split(SubSeq(s, i + 1, Len(s)), sep)

(***************************************************************************)
(* Tag tables.                                                             *)
(***************************************************************************)
\* Canonical fields in the iteration order of TAG_PRESET.
TAG_KEYS == <<"album", "artist", "date", "title", "year", "originaldate",
              "comment", "group", "writer", "genre", "tracknumber",
              "albumartist", "discnumber", "cpil", "albumart", "encodedby",
              "copyright", "tempo", "lyrics", "explicit", "woas">>

M4A_TAG_PRESET ==
  [album |-> "xa9alb", artist |-> "xa9ART", date |-> "xa9day",
   title |-> "xa9nam", year |-> "xa9day", originaldate |-> "purd",
   comment |-> "xa9cmt", group |-> "xa9grp", writer |-> "xa9wrt",
   genre |-> "xa9gen", tracknumber |-> "trkn", albumartist |-> "aART",
   discnumber |-> "disk", cpil |-> "cpil", albumart |-> "covr",
   encodedby |-> "xa9too", copyright |-> "cprt", tempo |-> "tmpo",
   lyrics |-> "xa9lyr", explicit |-> "rtng", woas |-> "----:spotdl:WOAS"]

MP3_TAG_PRESET ==
  [album |-> "TALB", artist |-> "TPE1", date |-> "TDRC", title |-> "TIT2",
   year |-> "TDRC", originaldate |-> "TDOR", comment |-> "COMM::XXX",
   group |-> "TIT1", writer |-> "TEXT", genre |-> "TCON",
   tracknumber |-> "TRCK", albumartist |-> "TPE2", discnumber |-> "TPOS",
   cpil |-> "TCMP", albumart |-> "APIC", encodedby |-> "TENC",
   copyright |-> "TCOP", tempo |-> "TBPM", lyrics |-> "USLT::XXX",
   woas |-> "WOAS", explicit |-> "NULL"]

TAG_PRESET == [key \in DOMAIN M4A_TAG_PRESET |-> key]

TAG_TO_SONG ==
  [title |-> "name", artist |-> "artists", album |-> "album_name",
   albumartist |-> "album_artist", genre |-> "genres",
   discnumber |-> "disc_number", year |-> "year", date |-> "date",
   tracknumber |-> "track_number", encodedby |-> "publisher",
   woas |-> "url", copyright |-> "copyright_text", lyrics |-> "lyrics"]

Encodings == {"mp3", "m4a", "flac", "ogg", "opus"}

Generic == {"flac", "ogg", "opus"}

(***************************************************************************)
(* The tag library (mutagen) as far as this module uses it.                *)
(***************************************************************************)
\* ID3 frames: a text frame holds a list of strings, USLT one string,
\* WOAS a url.
TextFrame(l) == [t |-> "TextFrame", v |-> l]
USLT(text) == [t |-> "USLT", v |-> text.v]
COMM(text) == [t |-> "COMM", v |-> <<text>>]
WOAS(url) == [t |-> "WOAS", v |-> url.v]
APIC(data) == [t |-> "APIC", v |-> data]
MP4Cover(data) == [t |-> "MP4Cover", v |-> data]
Picture(data) == [t |-> "Picture", v |-> data]

\* frame.text
FrameText(frame) == IF frame.t = "USLT" THEN Str(frame.v) ELSE List(frame.v)

\* frame.url
FrameUrl(frame) == Str(frame.v)

\* The key under which ID3.add files a frame.
HashKey(frame) ==
  CASE frame.t = "USLT" -> "USLT::XXX"
    [] frame.t = "COMM" -> "COMM::XXX"
    [] OTHER -> frame.t

Listify(x) == IF x.t = "list" THEN x ELSE List(<<x>>)

\* Handle class that File() returns for a recognised file.
KindOf(enc, easy) ==
  CASE enc = "mp3" -> IF easy THEN "EasyMP3" ELSE "MP3"
    [] enc = "m4a" -> "MP4"
    [] enc = "flac" -> "FLAC"
    [] enc = "ogg" -> "OggVorbis"
    [] enc = "opus" -> "OggOpus"

NoHandle == [kind |-> "none", tags |-> EmptyMap, pictures |-> <<>>]

Handle(kind, f) == [kind |-> kind, tags |-> f.tags, pictures |-> f.pictures]

\* handle[key] = value.  The easy view of an mp3 files a text frame under
\* the frame id of the easy key; Vorbis comments wrap a single value in a
\* list; MP4 and frame-level ID3 handles keep the value as given.
SetItem(h, key, value) ==
  CASE h.kind = "EasyMP3" ->
         [h EXCEPT !.tags = Put(@, MP3_TAG_PRESET[key], TextFrame(Listify(value).v))]
    [] h.kind \in {"FLAC", "OggVorbis", "OggOpus"} ->
         [h EXCEPT !.tags = Put(@, key, Listify(value))]
    [] OTHER -> [h EXCEPT !.tags = Put(@, key, value)]

\* ID3.add(frame)
AddFrame(h, frame) == [h EXCEPT !.tags = Put(@, HashKey(frame), frame)]

\* What a saved value is when the file is loaded again: MP4 atoms come
\* back as lists, the other containers already hold lists or frames.
Stored(kind, x) ==
  IF kind # "MP4" THEN x
  ELSE CASE x.t = "tuple" -> List(x.v)
         [] x.t = "list" -> x
         [] OTHER -> List(<<x>>)

\* handle.save()
Saved(h) ==
  [state |-> "ok",
   tags |-> [k \in DOMAIN h.tags |-> Stored(h.kind, h.tags[k])],
   pictures |-> h.pictures]

(***************************************************************************)
(* Song records and files the operations are run on.                       *)
(***************************************************************************)
Artists(n) == List([i \in 1..n |-> Str(<<"A">> \o str(i))])

Genres(n) == List([i \in 1..n |-> Str(<<"g">> \o str(i))])

DateOf(year) == Str(str(year) \o <<"-", "0", "5", "-", "0", "1">>)

Song(na, ng, k, lyr, dl, extras, expl) ==
  [name |-> Str(<<"H", "i">>),
   artists |-> Artists(na),
   artist |-> Artists(na).v[1],
   album_name |-> IF extras THEN Str(<<"L", "p">>) ELSE Str(<<>>),
   genres |-> Genres(ng),
   disc_number |-> PyInt(k),
   disc_count |-> PyInt(10),
   track_number |-> PyInt(k + 2),
   tracks_count |-> PyInt(12),
   date |-> DateOf(2019 + k),
   publisher |-> Str(<<"P", "b">>),
   url |-> Str(<<"s", ":", "/", "t">>),
   copyright_text |-> IF extras THEN Str(<<"(", "c", ")">>) ELSE None,
   lyrics |-> IF lyr THEN Str(<<"l", "a">>) ELSE None,
   download_url |-> IF dl THEN Str(<<"y", "t">>) ELSE None,
   explicit |-> Bool(expl),
   cover_url |-> IF extras THEN Str(<<"i", "m", "g">>) ELSE None]

Songs ==
  {Song(na, ng, k, lyr, dl, extras, expl) :
     na \in 1..MaxArtists, ng \in 0..MaxGenres, k \in 1..MaxNumber,
     lyr \in BOOLEAN, dl \in BOOLEAN, extras \in BOOLEAN, expl \in BOOLEAN}

\* output_file: the suffix after the dot is the encoding.
output_file(enc) == Str(<<"t", "e", "s", "t", ".", enc>>)

OldArtists(n) == [i \in 1..n |-> Str(<<"B">> \o str(i))]

OldDate == Str(<<"2", "0", "2", "1", "-", "0", "5", "-", "0", "1">>)

OldCover == <<"j", "p", "g">>

\* Tags left in a file by another tagger, in the container's stored form.
\* v = 1: one artist, a track text without a slash, a cover;
\* v = 2: several artists, "N/M" track and disc texts;
\* v = 3: a title and no artist.
ForeignTags(enc, v) ==
  CASE enc = "mp3" ->
         CASE v = 1 -> [TPE1 |-> TextFrame(OldArtists(1)),
                        TRCK |-> TextFrame(<<Str(<<"5">>)>>),
                        TPOS |-> TextFrame(<<Str(<<"2">>)>>),
                        TDRC |-> TextFrame(<<OldDate>>)]
                       @@ ("APIC:Cover" :> APIC(OldCover))
           [] v = 2 -> [TPE1 |-> TextFrame(OldArtists(2)),
                        TRCK |-> TextFrame(<<Str(<<"3", "/", "1", "2">>)>>),
                        TPOS |-> TextFrame(<<Str(<<"1", "/", "2">>)>>),
                        TIT2 |-> TextFrame(<<Str(<<"O", "l", "d">>)>>)]
           [] OTHER -> [TIT2 |-> TextFrame(<<Str(<<"O", "l", "d">>)>>)]
    [] enc = "m4a" ->
         CASE v = 1 -> [xa9ART |-> List(OldArtists(1)),
                        trkn |-> List(<<Tuple(<<PyInt(5), PyInt(0)>>)>>),
                        disk |-> List(<<Tuple(<<PyInt(2), PyInt(0)>>)>>),
                        xa9day |-> List(<<OldDate>>),
                        covr |-> List(<<MP4Cover(OldCover)>>)]
           [] v = 2 -> [xa9ART |-> List(OldArtists(2)),
                        trkn |-> List(<<Tuple(<<PyInt(3), PyInt(12)>>)>>),
                        disk |-> List(<<Tuple(<<PyInt(1), PyInt(2)>>)>>),
                        xa9nam |-> List(<<Str(<<"O", "l", "d">>)>>)]
           [] OTHER -> [xa9nam |-> List(<<Str(<<"O", "l", "d">>)>>)]
    [] OTHER ->
         CASE v = 1 -> [artist |-> List(OldArtists(1)),
                        tracknumber |-> List(<<Str(<<"5">>)>>),
                        discnumber |-> List(<<Str(<<"2">>)>>),
                        originaldate |-> List(<<OldDate>>),
                        metadata_block_picture |-> List(<<Str(OldCover)>>)]
           [] v = 2 -> [artist |-> List(OldArtists(2)),
                        tracknumber |-> List(<<Str(<<"3", "/", "1", "2">>)>>),
                        discnumber |-> List(<<Str(<<"1", "/", "2">>)>>),
                        title |-> List(<<Str(<<"O", "l", "d">>)>>)]
           [] OTHER -> [title |-> List(<<Str(<<"O", "l", "d">>)>>)]

ForeignVariants == 1..3

Files(enc) ==
  {[state |-> "missing", tags |-> EmptyMap, pictures |-> <<>>],
   [state |-> "unrecognized", tags |-> EmptyMap, pictures |-> <<>>],
   [state |-> "ok", tags |-> EmptyMap, pictures |-> <<>>]}
  \cup {[state |-> "ok", tags |-> ForeignTags(enc, v),
         pictures |-> IF enc = "flac" /\ v = 1 THEN <<Picture(OldCover)>> ELSE <<>>] :
           v \in ForeignVariants}

NoError == [type |-> "", msg |-> <<>>, cause |-> <<>>]

NoMeta == [status |-> "idle", meta |-> EmptyMap]

NoCover == [fetch |-> "idle", before |-> NoHandle, after |-> NoHandle]

Init ==
  /\ song \in Songs
  /\ encoding \in Encodings
  /\ file \in Files(encoding)
  /\ audio_file = NoHandle
  /\ pc = "start"
  /\ ops = <<>>
  /\ err = NoError
  /\ song_meta = NoMeta
  /\ rd = "idle"
  /\ cover = NoCover

(***************************************************************************)
(* embed_cover, the function                                               *)
(***************************************************************************)
CoverData == <<"n", "e", "w">>

\* base64.b64encode(picture.write()).decode("ascii")
B64Picture(data) == Str(<<"b64", "(">> \o data \o <<")">>)

\* Variant: the failure of the fetch is not caught before the embedding.
embed_cover_FetchUnchecked(h, s, enc, fetch) ==
  IF ~Truthy(s.cover_url) THEN h
  ELSE CASE enc \in {"ogg", "opus"} ->
              SetItem(h, "metadata_block_picture", List(<<B64Picture(<<>>)>>))
         [] enc = "flac" ->
              [h EXCEPT !.pictures = Append(@, Picture(<<>>))]
         [] enc = "m4a" ->
              SetItem(h, M4A_TAG_PRESET["albumart"], List(<<MP4Cover(<<>>)>>))
         [] enc = "mp3" -> SetItem(h, "APIC", APIC(<<>>))
         [] OTHER -> h

\* fetch is the outcome of requests.get: "fail" when it raises.
embed_cover(h, s, enc, fetch) ==
  IF ~Truthy(s.cover_url) THEN h
  ELSE IF fetch = "fail" THEN h
  ELSE CASE enc \in {"ogg", "opus"} ->
              SetItem(h, "metadata_block_picture", List(<<B64Picture(CoverData)>>))
         [] enc = "flac" ->
              [h EXCEPT !.pictures = Append(@, Picture(CoverData))]
         [] enc = "m4a" ->
              SetItem(h, M4A_TAG_PRESET["albumart"], List(<<MP4Cover(CoverData)>>))
         [] enc = "mp3" -> SetItem(h, "APIC", APIC(CoverData))
         [] OTHER -> h

(***************************************************************************)
(* embed_metadata                                                          *)
(***************************************************************************)
tag_preset(enc) == IF enc # "m4a" THEN TAG_PRESET ELSE M4A_TAG_PRESET

Assign(enc, key, value) == [key |-> tag_preset(enc)[key], value |-> value]

RECURSIVE SetAll(_, _)
SetAll(h, as) ==
  IF as = <<>> THEN h
  ELSE SetAll(SetItem(h, Head(as).key, Head(as).value), Tail(as))

SetOps(as) == [i \in 1..Len(as) |-> [op |-> "set", key |-> as[i].key]]

\* File(path, easy): the handle, or none for an unrecognised file (a
\* missing file makes File raise instead).
File(f, enc, easy) ==
  IF f.state = "ok" THEN Handle(KindOf(enc, easy), f) ELSE NoHandle

\* The exception raised in the try block, by File or by the check of its
\* result, is caught by the except clause of the same statement and
\* replaced; the original is kept as the cause only.
LoadError(f, enc, s) ==
  [type |-> "MetadataError",
   msg |-> <<"Unable to load file.">>,
   cause |-> IF f.state = "missing" THEN <<"No such file">>
             ELSE <<"Unrecognized file format for ">> \o output_file(enc).v
                  \o <<" from ">> \o s.url.v]

Load ==
  /\ pc = "start"
  /\ LET h == File(file, encoding, encoding = "mp3")
     IN IF h = NoHandle
        THEN /\ err' = LoadError(file, encoding, song)
             /\ pc' = "error"
             /\ UNCHANGED audio_file
        ELSE /\ audio_file' = h
             /\ pc' = "loaded"
             /\ UNCHANGED err
  /\ UNCHANGED <<song, encoding, file, ops, song_meta, rd, cover>>

BasicTags(enc, s) ==
  <<Assign(enc, "artist", s.artists),
    Assign(enc, "albumartist", s.artist),
    Assign(enc, "title", s.name),
    Assign(enc, "date", s.date),
    Assign(enc, "originaldate", s.date),
    Assign(enc, "encodedby", s.publisher)>>

EmbedBasic ==
  /\ pc = "loaded"
  /\ audio_file' = SetAll(audio_file, BasicTags(encoding, song))
  /\ ops' = ops \o SetOps(BasicTags(encoding, song))
  /\ pc' = "basic"
  /\ UNCHANGED <<song, encoding, file, err, song_meta, rd, cover>>

When(cond, a) == IF cond THEN <<a>> ELSE <<>>

\* Variant: lyrics and comment are not deferred for mp3.
OptionalTagsNotDeferred(enc, s) ==
  When(Truthy(s.album_name), Assign(enc, "album", s.album_name))
  \o When(Len(s.genres.v) > 0, Assign(enc, "genre", s.genres))
  \o When(Truthy(s.copyright_text), Assign(enc, "copyright", s.copyright_text))
  \o When(Truthy(s.lyrics), Assign(enc, "lyrics", s.lyrics))
  \o When(Truthy(s.download_url), Assign(enc, "comment", s.download_url))

OptionalTags(enc, s) ==
  When(Truthy(s.album_name), Assign(enc, "album", s.album_name))
  \o When(Len(s.genres.v) > 0, Assign(enc, "genre", s.genres))
  \o When(Truthy(s.copyright_text), Assign(enc, "copyright", s.copyright_text))
  \o When(Truthy(s.lyrics) /\ enc # "mp3", Assign(enc, "lyrics", s.lyrics))
  \o When(Truthy(s.download_url) /\ enc # "mp3",
          Assign(enc, "comment", s.download_url))

EmbedOptional ==
  /\ pc = "basic"
  /\ audio_file' = SetAll(audio_file, OptionalTags(encoding, song))
  /\ ops' = ops \o SetOps(OptionalTags(encoding, song))
  /\ pc' = "optional"
  /\ UNCHANGED <<song, encoding, file, err, song_meta, rd, cover>>

\* Variant: the two sentinels exchanged.
ExplicitSentinelSwapped(s) == IF s.explicit = Bool(TRUE) THEN 2 ELSE 4

ExplicitSentinel(s) == IF s.explicit = Bool(TRUE) THEN 4 ELSE 2

FormatTags(enc, s) ==
  CASE enc \in Generic ->
         <<Assign(enc, "discnumber",
                  Str(zfill(str(s.disc_number.v), Len(str(s.disc_count.v))))),
           Assign(enc, "tracknumber",
                  Str(zfill(str(s.track_number.v), Len(str(s.tracks_count.v))))),
           Assign(enc, "woas", s.url)>>
    [] enc = "m4a" ->
         <<Assign(enc, "discnumber", List(<<Tuple(<<s.disc_number, s.disc_count>>)>>)),
           Assign(enc, "tracknumber", List(<<Tuple(<<s.track_number, s.tracks_count>>)>>)),
           Assign(enc, "explicit", Tuple(<<PyInt(ExplicitSentinel(s))>>)),
           Assign(enc, "woas", Bytes(s.url.v))>>
    [] enc = "mp3" ->
         <<[key |-> "tracknumber",
            value |-> Str(str(s.track_number.v) \o <<"/">> \o str(s.tracks_count.v))],
           [key |-> "discnumber",
            value |-> Str(str(s.disc_number.v) \o <<"/">> \o str(s.disc_count.v))]>>

EmbedFormat ==
  /\ pc = "optional"
  /\ audio_file' = SetAll(audio_file, FormatTags(encoding, song))
  /\ ops' = ops \o SetOps(FormatTags(encoding, song))
  /\ pc' = "format"
  /\ UNCHANGED <<song, encoding, file, err, song_meta, rd, cover>>

Mp3Save ==
  /\ pc = "format"
  /\ encoding = "mp3"
  /\ file' = Saved(audio_file)
  /\ ops' = Append(ops, [op |-> "save", key |-> ""])
  /\ pc' = "saved"
  /\ UNCHANGED <<song, encoding, audio_file, err, song_meta, rd, cover>>

Mp3Reopen ==
  /\ pc = "saved"
  /\ audio_file' = Handle("ID3", file)
  /\ ops' = Append(ops, [op |-> "reopen", key |-> ""])
  /\ pc' = "reopened"
  /\ UNCHANGED <<song, encoding, file, err, song_meta, rd, cover>>

Mp3Frames(s) ==
  <<WOAS(s.url)>>
  \o When(Truthy(s.lyrics), USLT(s.lyrics))
  \o When(Truthy(s.download_url), COMM(s.download_url))

RECURSIVE AddAll(_, _)
AddAll(h, frames) ==
  IF frames = <<>> THEN h
  ELSE AddAll(AddFrame(h, Head(frames)), Tail(frames))

AddOps(frames) == [i \in 1..Len(frames) |-> [op |-> "add", key |-> frames[i].t]]

Mp3AddFrames ==
  /\ pc = "reopened"
  /\ audio_file' = AddAll(audio_file, Mp3Frames(song))
  /\ ops' = ops \o AddOps(Mp3Frames(song))
  /\ pc' = "frames"
  /\ UNCHANGED <<song, encoding, file, err, song_meta, rd, cover>>

\* Variant: the album-art step is active.
AlbumArtStepActive(h, s, enc) == embed_cover(h, s, enc, "ok")

\* The album-art step of embed_metadata is commented out: the handle goes
\* to the final save as it is.
AlbumArtStep(h, s, enc) == h

FinalSave ==
  /\ \/ pc = "format" /\ encoding # "mp3"
     \/ pc = "frames"
  /\ audio_file' = AlbumArtStep(audio_file, song, encoding)
  /\ file' = Saved(audio_file')
  /\ ops' = Append(ops, [op |-> "save", key |-> ""])
  /\ pc' = "done"
  /\ UNCHANGED <<song, encoding, err, song_meta, rd, cover>>

(***************************************************************************)
(* embed_cover, called on a handle of the file                             *)
(***************************************************************************)
\* The caller's handle: the frame-level one for mp3.
CoverHandle(f, enc) == Handle(IF enc = "mp3" THEN "ID3" ELSE KindOf(enc, FALSE), f)

EmbedCover ==
  /\ pc \in {"start", "done"}
  /\ file.state = "ok"
  /\ \E fetch \in {"fail", "ok"} :
       cover' = [fetch |-> IF Truthy(song.cover_url) THEN fetch ELSE "skipped",
                 before |-> CoverHandle(file, encoding),
                 after |-> embed_cover(CoverHandle(file, encoding), song, encoding, fetch)]
  /\ UNCHANGED <<song, encoding, file, audio_file, pc, ops, err, song_meta, rd>>

(***************************************************************************)
(* get_file_metadata                                                       *)
(***************************************************************************)
NativeKey(enc, key) ==
  CASE enc = "m4a" -> M4A_TAG_PRESET[key]
    [] enc = "mp3" -> MP3_TAG_PRESET[key]
    [] OTHER -> key

Ok(m) == [ex |-> "", m |-> m]

Raise(ex, m) == [ex |-> ex, m |-> m]

\* x[0]
CanIndex0(x) == x.t \in {"str", "list", "tuple", "bytes"} /\ Len(x.v) > 0

Index0(x) == IF x.t \in {"str", "bytes"} THEN [t |-> x.t, v |-> <<x.v[1]>>] ELSE x.v[1]

\* x[0] if len(x) == 1 else x
Unwrap(x) == IF Len(x.v) = 1 THEN Index0(x) ELSE x

\* song_meta[field] = int(str(x)[:4])
PutYear(m, field, x) ==
  IF IntOk(Prefix(x.v, 4)) THEN Ok(Put(m, field, PyInt(int(Prefix(x.v, 4)))))
  ELSE Raise("ValueError", m)

\* The mp3 "N/M" texts of TRCK and TPOS.
SplitNumber(m, number, count, text) ==
  LET parts == split(text.v, "/")
  IN IF Len(parts) = 2
     THEN IF IntOk(parts[1]) /\ IntOk(parts[2])
          THEN Ok(Put(Put(m, number, PyInt(int(parts[1]))), count, PyInt(int(parts[2]))))
          ELSE Raise("ValueError", m)
     ELSE Ok(Put(m, number, text))

PutSongField(m, key, x) ==
  IF key \in DOMAIN TAG_TO_SONG THEN Ok(Put(m, TAG_TO_SONG[key], x)) ELSE Ok(m)

DecodeMp3(m, key, val) ==
  CASE key = "woas" -> Ok(Put(m, "url", FrameUrl(val)))
    [] key = "year" -> PutYear(m, "year", FrameText(val).v[1])
    [] key = "date" -> Ok(Put(m, "date", FrameText(val).v[1]))
    [] key = "tracknumber" ->
         SplitNumber(m, "track_number", "tracks_count", FrameText(val).v[1])
    [] key = "discnumber" ->
         SplitNumber(m, "disc_number", "disc_count", FrameText(val).v[1])
    [] OTHER -> IF key \in DOMAIN TAG_TO_SONG
                THEN PutSongField(m, key, Unwrap(FrameText(val)))
                ELSE Ok(m)

DecodeM4a(m, key, val) ==
  CASE key = "woas" -> Ok(Put(m, "url", Str(val.v[1].v)))
    [] key = "explicit" ->
         Ok(Put(m, "explicit",
                IF Truthy(val) THEN Bool(val = List(<<PyInt(4)>>)) ELSE None))
    [] key = "year" -> PutYear(m, "year", val.v[1])
    [] key = "discnumber" ->
         Ok(Put(Put(m, "disc_number", val.v[1].v[1]), "disc_count", val.v[1].v[2]))
    [] key = "tracknumber" ->
         Ok(Put(Put(m, "track_number", val.v[1].v[1]), "tracks_count", val.v[1].v[2]))
    [] OTHER -> PutSongField(m, key, Unwrap(val))

PutInt(m, field, x) ==
  IF IntOk(x.v) THEN Ok(Put(m, field, PyInt(int(x.v)))) ELSE Raise("ValueError", m)

\* Variant: discnumber decoded into disc_number.
DecodeGenericDiscNumber(m, key, val) ==
  CASE key = "originaldate" -> PutYear(m, "year", val.v[1])
    [] key = "tracknumber" -> PutInt(m, "track_number", val.v[1])
    [] key = "discnumber" -> PutInt(m, "disc_number", val.v[1])
    [] OTHER -> PutSongField(m, key, Unwrap(val))

DecodeGeneric(m, key, val) ==
  CASE key = "originaldate" -> PutYear(m, "year", val.v[1])
    [] key = "tracknumber" -> PutInt(m, "track_number", val.v[1])
    [] key = "discnumber" -> PutInt(m, "disc_count", val.v[1])
    [] OTHER -> PutSongField(m, key, Unwrap(val))

\* Variant: an absent tag is skipped.
AbsentTagSkipped(m, key) == m

\* A tag that is absent: its song field, if it has one, is set to None.
AbsentTag(m, key) ==
  IF key \in DOMAIN TAG_TO_SONG THEN Put(m, TAG_TO_SONG[key], None) ELSE m

\* One iteration of the loop over TAG_PRESET.
ReadKey(acc, enc, tags, key) ==
  IF acc.ex # "" THEN acc
  ELSE LET val == Get(tags, NativeKey(enc, key))
       IN IF val = None THEN Ok(AbsentTag(acc.m, key))
          ELSE CASE enc = "mp3" -> DecodeMp3(acc.m, key, val)
                 [] enc = "m4a" -> DecodeM4a(acc.m, key, val)
                 [] OTHER -> DecodeGeneric(acc.m, key, val)

RECURSIVE ReadKeys(_, _, _, _)
ReadKeys(acc, enc, tags, i) ==
  IF i > Len(TAG_KEYS) THEN acc
  ELSE ReadKeys(ReadKey(acc, enc, tags, TAG_KEYS[i]), enc, tags, i + 1)

\* song_meta["artist"] = song_meta["artists"][0]
MainArtist(acc) ==
  IF acc.ex # "" THEN acc
  ELSE LET artists == Get(acc.m, "artists")
       IN IF artists.t = "none" THEN Raise("TypeError", acc.m)
          ELSE IF ~CanIndex0(artists) THEN Raise("IndexError", acc.m)
          ELSE Ok(Put(acc.m, "artist", Index0(artists)))

get_file_metadata(f, enc) ==
  IF f.state = "missing" THEN [status |-> "OSError", meta |-> EmptyMap]
  ELSE IF f.state # "ok" \/ DOMAIN f.tags = {} THEN [status |-> "none", meta |-> EmptyMap]
  ELSE LET acc == MainArtist(ReadKeys(Ok(EmptyMap), enc, f.tags, 1))
       IN IF acc.ex # "" THEN [status |-> acc.ex, meta |-> EmptyMap]
          ELSE [status |-> "ok", meta |-> acc.m]

GetFileMetadata ==
  /\ pc \in {"start", "done", "error"}
  /\ song_meta' = get_file_metadata(file, encoding)
  /\ rd' = IF pc = "done" THEN "post" ELSE "pre"
  /\ UNCHANGED <<song, encoding, file, audio_file, pc, ops, err, cover>>

Next ==
  \/ Load
  \/ EmbedBasic
  \/ EmbedOptional
  \/ EmbedFormat
  \/ Mp3Save
  \/ Mp3Reopen
  \/ Mp3AddFrames
  \/ FinalSave
  \/ EmbedCover
  \/ GetFileMetadata

Spec == Init /\ [][Next]_vars

(***************************************************************************)
(* Properties.                                                             *)
(***************************************************************************)
Has(m, k, x) == k \in DOMAIN m /\ m[k] = x

Contains(s, sub) ==
  \E i \in 0..(Len(s) - Len(sub)) : SubSeq(s, i + 1, i + Len(sub)) = sub

\* song_meta is the result of reading the file as it is now.
ReadOfFile ==
  \/ rd = "post"
  \/ rd = "pre" /\ pc \notin {"saved", "reopened", "frames", "done"}

\* A record field is reproduced by the value read; a field the record
\* leaves empty is also reproduced by an absent one.
Reproduces(m, k, x) == Has(m, k, x) \/ (~Truthy(x) /\ Has(m, k, None))

\* C1: after embed_metadata, get_file_metadata on the same file returns a
\* mapping that reproduces name, artists, album name, genres, track number
\* and count, disc number and count, copyright text and url, and for the
\* formats other than mp3 the lyrics.
C1_RoundTrip ==
  rd = "post" =>
    /\ song_meta.status = "ok"
    /\ Reproduces(song_meta.meta, "name", song.name)
    /\ Reproduces(song_meta.meta, "artists", song.artists)
    /\ Reproduces(song_meta.meta, "album_name", song.album_name)
    /\ Reproduces(song_meta.meta, "genres", song.genres)
    /\ Reproduces(song_meta.meta, "track_number", song.track_number)
    /\ Reproduces(song_meta.meta, "tracks_count", song.tracks_count)
    /\ Reproduces(song_meta.meta, "disc_number", song.disc_number)
    /\ Reproduces(song_meta.meta, "disc_count", song.disc_count)
    /\ Reproduces(song_meta.meta, "copyright_text", song.copyright_text)
    /\ Reproduces(song_meta.meta, "url", song.url)
    /\ encoding # "mp3" => Reproduces(song_meta.meta, "lyrics", song.lyrics)

\* C2: when File returns none in embed_metadata, the message of the
\* MetadataError that reaches the caller contains the output path and the
\* song url.
C2_ErrorCarriesPathAndUrl ==
  (pc = "error" /\ file.state = "unrecognized") =>
    /\ err.type = "MetadataError"
    /\ Contains(err.msg, output_file(encoding).v)
    /\ Contains(err.msg, song.url.v)

Op(op, key) == [op |-> op, key |-> key]

Mp3Tail(s) ==
  <<Op("save", ""), Op("reopen", ""), Op("add", "WOAS")>>
  \o (IF Truthy(s.lyrics) THEN <<Op("add", "USLT")>> ELSE <<>>)
  \o (IF Truthy(s.download_url) THEN <<Op("add", "COMM")>> ELSE <<>>)
  \o <<Op("save", "")>>

SaveCount == Cardinality({i \in DOMAIN ops : ops[i].op = "save"})

\* C3: for mp3 the operations are: the easy-tag writes, a save, the reopen,
\* add WOAS, add USLT iff lyrics, add COMM iff download_url, the final save;
\* lyrics and the comment are never written before the first save.  For
\* the other formats there is exactly one save and it is the last operation.
C3_OperationOrder ==
  /\ encoding = "mp3" =>
       /\ \A i \in DOMAIN ops :
            (ops[i].op = "add" \/ ops[i].key \in {"lyrics", "comment", "USLT::XXX", "COMM::XXX"})
              => \E j \in 1..(i - 1) : ops[j].op = "save"
       /\ pc = "done" =>
            \E n \in 1..Len(ops) :
              /\ \A i \in 1..n : ops[i].op = "set"
              /\ SubSeq(ops, n + 1, Len(ops)) = Mp3Tail(song)
  /\ encoding # "mp3" =>
       /\ pc # "done" => SaveCount = 0
       /\ pc = "done" => SaveCount = 1 /\ ops[Len(ops)].op = "save"

C3_Witness ==
  /\ encoding = "mp3"
  /\ pc = "done"
  /\ Truthy(song.lyrics)
  /\ ~Truthy(song.download_url)
  /\ Len(ops) > Len(Mp3Tail(song))

\* C4 as claimed: in a returned mapping every canonical field whose native
\* tag is absent and that has a song field holds None under that field.
C4_AbsentIsNone ==
  (ReadOfFile /\ song_meta.status = "ok") =>
    \A key \in DOMAIN TAG_TO_SONG :
      NativeKey(encoding, key) \notin DOMAIN file.tags
        => Has(song_meta.meta, TAG_TO_SONG[key], None)

YearFromOriginalDate(key) ==
  encoding \in Generic /\ key = "year" /\ "originaldate" \in DOMAIN file.tags

\* C4 amended: in a returned mapping every canonical field whose native tag
\* is absent and that has a song field holds None under that field, except
\* year in flac/ogg/opus when the originaldate tag is present: it then holds
\* the integer decoded from originaldate.
C4_AbsentIsNoneUnlessOriginalDate ==
  (ReadOfFile /\ song_meta.status = "ok") =>
    \A key \in DOMAIN TAG_TO_SONG :
      NativeKey(encoding, key) \notin DOMAIN file.tags
        => IF YearFromOriginalDate(key)
           THEN /\ "year" \in DOMAIN song_meta.meta
                /\ song_meta.meta["year"].t = "int"
           ELSE Has(song_meta.meta, TAG_TO_SONG[key], None)

C4_Witness ==
  /\ ReadOfFile
  /\ song_meta.status = "ok"
  /\ encoding = "flac"
  /\ "year" \notin DOMAIN file.tags
  /\ "originaldate" \in DOMAIN file.tags
  /\ "album" \notin DOMAIN file.tags
  /\ Has(song_meta.meta, "album_name", None)

ArtistTag == NativeKey(encoding, "artist")

ArtistEntries ==
  IF ArtistTag \in DOMAIN file.tags THEN file.tags[ArtistTag].v ELSE <<>>

\* C5: a returned mapping has under "artist" the first entry of the file's
\* artist tag, for one entry as for several; a file with tags and no artist
\* entry makes the call fail.
C5_ArtistIsFirstEntry ==
  (ReadOfFile /\ file.state = "ok" /\ DOMAIN file.tags # {}) =>
    IF ArtistEntries = <<>> THEN song_meta.status \notin {"ok", "none"}
    ELSE song_meta.status = "ok" => Has(song_meta.meta, "artist", ArtistEntries[1])

\* C6: embed_cover without a cover url, or with a failing fetch, returns the
\* handle with every tag and picture as before.
C6_CoverNoOp ==
  cover.fetch \in {"skipped", "fail"} => cover.after = cover.before

C6_Witness ==
  /\ cover.fetch = "fail"
  /\ Truthy(song.cover_url)
  /\ DOMAIN cover.before.tags # {}

HasSlash(text) == \E i \in 1..Len(text) : text[i] = "/"

NumberAsClaimed(tag, number, count) ==
  tag \in DOMAIN file.tags =>
    LET text == file.tags[tag].v[1].v
        parts == split(text, "/")
    IN IF HasSlash(text)
       THEN /\ Has(song_meta.meta, number, PyInt(int(parts[1])))
            /\ Has(song_meta.meta, count, PyInt(int(parts[2])))
       ELSE /\ Has(song_meta.meta, number, PyInt(int(text)))
            /\ count \notin DOMAIN song_meta.meta

\* C7: reading an mp3 track or disc text "N/M" gives number = integer N and
\* count = integer M; a text without a slash gives the number as an integer
\* and no count.
C7_Mp3NumberSplit ==
  (ReadOfFile /\ encoding = "mp3" /\ song_meta.status = "ok") =>
    /\ NumberAsClaimed("TRCK", "track_number", "tracks_count")
    /\ NumberAsClaimed("TPOS", "disc_number", "disc_count")

\* C8: for m4a the explicit tag is written as (4,) when song.explicit is
\* true and (2,) otherwise, the written file reads back explicit = true and
\* false respectively, and a file whose tag was never set reads with no
\* true/false explicit value.
C8_ExplicitRoundTrip ==
  encoding = "m4a" =>
    /\ pc \in {"format", "done"} =>
         Has(audio_file.tags, "rtng",
             Tuple(<<PyInt(IF song.explicit.v THEN 4 ELSE 2)>>))
    /\ rd = "post" =>
         song_meta.status = "ok" /\ Has(song_meta.meta, "explicit", song.explicit)
    /\ (ReadOfFile /\ song_meta.status = "ok" /\ "rtng" \notin DOMAIN file.tags) =>
         ~(\E b \in BOOLEAN : Has(song_meta.meta, "explicit", Bool(b)))

C8_Witness ==
  /\ encoding = "m4a"
  /\ rd = "post"
  /\ song.explicit = Bool(TRUE)
  /\ Has(song_meta.meta, "explicit", Bool(TRUE))
  /\ file.tags["rtng"] = List(<<PyInt(4)>>)

FirstText(tag) == file.tags[tag].v[1].v

\* C9: reading flac/ogg/opus, a present discnumber is stored as an integer
\* under disc_count and not under disc_number, tracknumber as an integer
\* under track_number, originaldate as the integer of its first four
\* characters under year.
C9_GenericDecode ==
  (ReadOfFile /\ encoding \in Generic /\ song_meta.status = "ok") =>
    /\ "discnumber" \in DOMAIN file.tags =>
         /\ Has(song_meta.meta, "disc_count", PyInt(int(FirstText("discnumber"))))
         /\ ~Has(song_meta.meta, "disc_number", PyInt(int(FirstText("discnumber"))))
    /\ "tracknumber" \in DOMAIN file.tags =>
         Has(song_meta.meta, "track_number", PyInt(int(FirstText("tracknumber"))))
    /\ "originaldate" \in DOMAIN file.tags =>
         Has(song_meta.meta, "year", PyInt(int(Prefix(FirstText("originaldate"), 4))))
    /\ rd = "post" =>
         /\ Has(song_meta.meta, "disc_count", song.disc_number)
         /\ Has(song_meta.meta, "track_number", song.track_number)
         /\ Has(song_meta.meta, "year", PyInt(2019 + song.disc_number.v))

C9_Witness ==
  /\ encoding \in Generic
  /\ rd = "post"
  /\ song_meta.status = "ok"
  /\ file.tags["discnumber"] = List(<<Str(<<"0", "2">>)>>)
  /\ Has(song_meta.meta, "disc_count", PyInt(2))

\* The picture-carrying part of a handle or file in any of the formats.
CoverField(h) ==
  <<Get(h.tags, "APIC"), Get(h.tags, "APIC:Cover"), Get(h.tags, "covr"),
    Get(h.tags, "metadata_block_picture"), h.pictures>>

\* C10: no step of embed_metadata changes the cover art: the file keeps its
\* picture field, and the handle being written carries the file's.
C10_NoCoverWritten ==
  [][/\ CoverField(file') = CoverField(file)
     /\ pc' \notin {"start", "error"} => CoverField(audio_file') = CoverField(file')]_vars

C10_Witness ==
  /\ pc = "done"
  /\ Truthy(song.cover_url)
  /\ "xa9ART" \in DOMAIN file.tags
  /\ Get(file.tags, "covr") = List(<<MP4Cover(OldCover)>>)

====
